---------------------------- MODULE Spec2Model ----------------------------
(***************************************************************************)
(* Frame-transform stages of the insertable-streams video-processing       *)
(* sample: NullTransform, DropTransform, DelayTransform, CropTransform     *)
(* (simple-transforms.js) and WebGPUTransform (part_000).                  *)
(*                                                                         *)
(* One stage instance is driven by a pipeline that calls init(), then      *)
(* transform(frame, controller) once per arriving frame, then destroy().   *)
(* An async method runs synchronously up to its first await; every await   *)
(* is a point where other calls of the same stage may run.                 *)
(***************************************************************************)
EXTENDS Integers, Sequences, FiniteSets, TLC

(* ------------------------------ bounds -------------------------------- *)
\* number of transform calls the pipeline makes
MaxFrames == 2
\* frame timestamps range over 0..MaxTs
MaxTs == 2
\* number of init() calls on the one stage instance
MaxCycles == 2

(* --------------------------- JS values -------------------------------- *)
\* null / undefined object handle (constructor: this.device_ = null, ...)
Null == 0
\* this.canvas_ = null
NoCanvas == << >>
\* CropTransform: this.firstTimestamp_ = null
NoTimestamp == -1
\* a GPUCanvasContext on which configure() has not been called
Unconfigured == << >>

StageKinds == {"NullTransform", "DropTransform", "DelayTransform",
               "CropTransform", "WebGPUTransform"}

\* display sizes of the frames the source produces: the size the canvas is
\* created with, one that differs from it in width only, and one that differs
\* from that in height only
FrameSizes == { << 1, 1 >>, << 2, 1 >>, << 2, 2 >> }

VARIABLES
  kind,             \* which class the stage instance is
  phase,            \* the pipeline's position: "new", "initializing", "ready", "destroyed"
  cycles,           \* number of init() calls made so far
  initPc,           \* WebGPUTransform.init: "idle", "await_adapter", "await_device"
  initResult,       \* outcome of the latest completed init(): "none", "ok", "failed"
  initAlerts,       \* webGPUNotSupported() calls made by the latest init()
  destroyResult,    \* outcome of the latest destroy(): "none", "ok", "threw"
  canvas_,          \* this.canvas_: NoCanvas or <<width, height>>
  context_,         \* this.context_: [set, config] (config: Unconfigured or <<w, h>>)
  device_,          \* this.device_: Null or the id of the device
  renderPipeline_,  \* this.renderPipeline_
  verticesBuffer_,  \* this.verticesBuffer_
  sampler_,         \* this.sampler_
  created,          \* GPU objects created so far: <<type, id>>
  destroyed,        \* GPU objects on which destroy() was called
  firstTimestamp_,  \* CropTransform: this.firstTimestamp_
  lastTs,           \* timestamp of the latest frame the source produced
  calls,            \* the transform calls made so far, in call order
  sink              \* frames handed to controller.enqueue, in order

vars == << kind, phase, cycles, initPc, initResult, initAlerts, destroyResult,
           canvas_, context_, device_, renderPipeline_, verticesBuffer_,
           sampler_, created, destroyed, firstTimestamp_, lastTs, calls, sink >>

stageVars == << canvas_, context_, device_, renderPipeline_, verticesBuffer_,
                sampler_, created, destroyed >>
driverVars == << phase, cycles, initPc, initResult, initAlerts, destroyResult >>

(* ------------------------------ frames -------------------------------- *)
\* A decoded frame the source hands to transform(): timestamp, displayWidth,
\* displayHeight.  Timestamps are capture times in frame periods: the first
\* frame has any of them, every later frame the one after its predecessor's.
Frames ==
  { [timestamp |-> t, displayWidth |-> d[1], displayHeight |-> d[2]] :
      t \in 0..MaxTs, d \in FrameSizes }

NextFrames ==
  { f \in Frames : IF lastTs = -1 THEN TRUE ELSE f.timestamp = lastTs + 1 }

\* What the pipeline has observed of the stage when a call starts.
StageState ==
  CASE phase = "new" -> "uninitialized"
    [] phase = "initializing" -> "initializing"
    [] phase = "ready" -> IF initResult = "ok" THEN "enabled" ELSE "failed"
    [] phase = "destroyed" -> "destroyed"

\* Book-keeping of one transform(frame, controller) call.
\*   pc        "await" while suspended, "done" when returned, "threw" when rejected
\*   closed    number of frame.close() calls on the input frame
\*   enqIn     number of times the input frame itself was enqueued
\*   enq       number of controller.enqueue calls
\*   tex, bmp  per-frame texture / bitmap: "none", "live", "released"
\*   ops       GPU operations performed (configure, createTexture, submit)
\*   reconf    whether the call ran setSize
\*   device    the device the call created its texture on, Null if none
\*   fault     the step that threw, "none" if none did
\*   steps     the statements the call has executed, in order
\*   pass      what the call found when it acquired the current surface
\*             texture: << >> if it has not, else one record of the canvas
\*             size, the context's configuration, this.device_, the number
\*             of transform calls made by then, and whether the vertex
\*             buffer it is about to bind has not been destroyed
NewCall(f) ==
  [ frame |-> f, pc |-> "start", closed |-> 0, enqIn |-> 0, enq |-> 0,
    tex |-> "none", bmp |-> "none", ops |-> 0, reconf |-> FALSE,
    prevConfig |-> context_.config, startState |-> StageState,
    device |-> Null, fault |-> "none", steps |-> << >>, pass |-> << >> ]

CanCall == Len(calls) < MaxFrames

Init ==
  /\ kind \in StageKinds
  /\ phase = "new"
  /\ cycles = 0
  /\ initPc = "idle"
  /\ initResult = "none"
  /\ initAlerts = 0
  /\ destroyResult = "none"
  /\ canvas_ = NoCanvas
  /\ context_ = [set |-> FALSE, config |-> Unconfigured]
  /\ device_ = Null
  /\ renderPipeline_ = Null
  /\ verticesBuffer_ = Null
  /\ sampler_ = Null
  /\ created = {}
  /\ destroyed = {}
  /\ firstTimestamp_ = NoTimestamp
  /\ lastTs = -1
  /\ calls = << >>
  /\ sink = << >>


(* --------------------- WebGPUTransform.init --------------------------- *)
\* a notification that is never shown (the function named, not called)
NoNotification(alerts) == alerts

\* webGPUNotSupported(): one alert() to the user
webGPUNotSupported(alerts) == alerts + 1

\* init() returns after the notification, leaving the stage as it is
InitFailed(alertsSoFar) ==
  /\ initAlerts' = webGPUNotSupported(alertsSoFar)
  /\ initResult' = "failed"
  /\ initPc' = "idle"
  /\ phase' = "ready"

\* init() up to `await navigator.gpu.requestAdapter()`
WebGPUTransform_init ==
  /\ kind = "WebGPUTransform"
  /\ phase \in {"new", "destroyed"}
  /\ cycles < MaxCycles
  /\ cycles' = cycles + 1
  /\ canvas_' = << 1, 1 >>
  /\ \E gotContext \in BOOLEAN :
       /\ context_' = [set |-> gotContext, config |-> Unconfigured]
       /\ IF ~gotContext
            THEN InitFailed(0)
            ELSE /\ initAlerts' = 0
                 /\ initResult' = "none"
                 /\ initPc' = "await_adapter"
                 /\ phase' = "initializing"
  /\ UNCHANGED << kind, destroyResult, device_, renderPipeline_, verticesBuffer_,
                  sampler_, created, destroyed, firstTimestamp_, lastTs, calls, sink >>

\* init() from the adapter's arrival up to `await adapter.requestDevice()`
WebGPUTransform_init_adapter ==
  /\ initPc = "await_adapter"
  /\ \E gotAdapter \in BOOLEAN :
       IF ~gotAdapter
         THEN InitFailed(initAlerts)
         ELSE /\ initPc' = "await_device"
              /\ UNCHANGED << initAlerts, initResult, phase >>
  /\ UNCHANGED << kind, cycles, destroyResult, stageVars, firstTimestamp_, lastTs,
                  calls, sink >>

\* init() from the device's arrival to its end: vertex buffer, render
\* pipeline and sampler are created on the new device
WebGPUTransform_init_device ==
  /\ initPc = "await_device"
  /\ \E dev \in {Null, cycles} :
       /\ device_' = dev
       /\ IF dev = Null
            THEN /\ InitFailed(initAlerts)
                 /\ UNCHANGED << renderPipeline_, verticesBuffer_, sampler_, created >>
            ELSE /\ verticesBuffer_' = dev
                 /\ renderPipeline_' = dev
                 /\ sampler_' = dev
                 /\ created' = created \cup {<< "device", dev >>, << "buffer", dev >>,
                                             << "pipeline", dev >>, << "sampler", dev >>}
                 /\ initResult' = "ok"
                 /\ initPc' = "idle"
                 /\ phase' = "ready"
                 /\ UNCHANGED initAlerts
  /\ UNCHANGED << kind, cycles, destroyResult, canvas_, context_, destroyed,
                  firstTimestamp_, lastTs, calls, sink >>

(* -------------------- WebGPUTransform.destroy ------------------------- *)
\* this.verticesBuffer_.destroy() on a null reference is a TypeError
DestroyThrows(buffer) == buffer = Null

\* destroy() that leaves the device handle in place
KeptDevice(dev) == dev

\* this.device_ = null
ReleasedDevice(dev) == Null

WebGPUTransform_destroy ==
  /\ kind = "WebGPUTransform"
  /\ phase = "ready"
  /\ phase' = "destroyed"
  /\ IF DestroyThrows(verticesBuffer_)
       THEN /\ destroyResult' = "threw"
            /\ UNCHANGED << device_, destroyed >>
       ELSE /\ destroyed' = destroyed \cup {<< "buffer", verticesBuffer_ >>}
            /\ device_' = ReleasedDevice(device_)
            /\ destroyResult' = "ok"
  /\ UNCHANGED << kind, cycles, initPc, initResult, initAlerts, canvas_, context_,
                  renderPipeline_, verticesBuffer_, sampler_, created,
                  firstTimestamp_, lastTs, calls, sink >>

(* ------- init / destroy of the stages of simple-transforms.js --------- *)
\* async init() {}
Simple_init ==
  /\ kind # "WebGPUTransform"
  /\ phase \in {"new", "destroyed"}
  /\ cycles < MaxCycles
  /\ cycles' = cycles + 1
  /\ phase' = "ready"
  /\ initResult' = "ok"
  /\ initAlerts' = 0
  /\ UNCHANGED << kind, initPc, destroyResult, stageVars, firstTimestamp_, lastTs,
                  calls, sink >>

\* destroy() {}
Simple_destroy ==
  /\ kind # "WebGPUTransform"
  /\ phase = "ready"
  /\ phase' = "destroyed"
  /\ destroyResult' = "ok"
  /\ UNCHANGED << kind, cycles, initPc, initResult, initAlerts, stageVars,
                  firstTimestamp_, lastTs, calls, sink >>


(* ------------------- WebGPUTransform.transform ------------------------ *)
\* a guard that tests the canvas only
DisabledCanvasOnly(dev, cvs) == cvs = NoCanvas

\* if (!this.device_ || !this.canvas_)
Disabled(dev, cvs) == dev = Null \/ cvs = NoCanvas

\* a comparison that forgets the height
SizeDiffersWidthOnly(cvs, width, height) == cvs[1] # width

\* a comparison that asks for both to differ (&& in place of ||)
SizeDiffersBoth(cvs, width, height) == cvs[1] # width /\ cvs[2] # height

\* if (this.canvas_.width !== width || this.canvas_.height !== height)
SizeDiffers(cvs, width, height) == cvs[1] # width \/ cvs[2] # height

\* the timestamp kept in a field shared by the calls: that of the latest frame
LatestTimestamp(c) == lastTs

\* const timestamp = frame.timestamp: a local of the call
CapturedTimestamp(c) == c.frame.timestamp

\* new VideoFrame(this.canvas_, {timestamp})
CanvasFrame(cvs, timestamp) ==
  [timestamp |-> timestamp, displayWidth |-> cvs[1], displayHeight |-> cvs[2]]

\* an enqueue that is made twice
EnqueueTwice(q, frame, i, input) ==
  Append(Append(q, [frame |-> frame, call |-> i, input |-> input]),
         [frame |-> frame, call |-> i, input |-> input])

\* controller.enqueue(frame) made by call i; input: the frame is the call's
\* own input frame
Enqueue(q, frame, i, input) ==
  Append(q, [frame |-> frame, call |-> i, input |-> input])

B2N(b) == IF b THEN 1 ELSE 0

\* the prefix of a statement sequence that ends with statement name
UpTo(seq, name) ==
  SubSeq(seq, 1, CHOOSE k \in 1..Len(seq) : seq[k] = name)

\* the statements of transform() up to its await, in program order
StartSteps(resize) ==
  << "frame.displayWidth", "frame.displayHeight" >>
    \o (IF resize THEN << "setSize" >> ELSE << >>)
    \o << "createTexture", "createImageBitmap(frame)" >>

\* the input frame released at the very end of the call, after the output
\* frame has been enqueued
ResumeStepsCloseLast ==
  << "copyImageBitmapToTexture", "imageBitmap.close", "createBindGroup",
     "frame.timestamp", "createCommandEncoder",
     "getCurrentTexture", "beginRenderPass", "submit", "enqueue",
     "videoTexture.destroy", "frame.close" >>

\* the statements of transform() after its await, in program order
ResumeSteps ==
  << "copyImageBitmapToTexture", "imageBitmap.close", "createBindGroup",
     "frame.timestamp", "frame.close", "createCommandEncoder",
     "getCurrentTexture", "beginRenderPass", "submit", "enqueue",
     "videoTexture.destroy" >>

\* a transform() that drops the sampler once it has used it
SamplerDropped ==
  /\ sampler_' = Null
  /\ UNCHANGED << device_, renderPipeline_, verticesBuffer_, created, destroyed >>

\* the stage-lifetime handles, which no statement of transform() assigns
StageLifetimeKept ==
  UNCHANGED << device_, renderPipeline_, verticesBuffer_, sampler_, created, destroyed >>

\* what a call finds at this.context_.getCurrentTexture()
SurfaceAtPass ==
  << [canvas |-> canvas_, config |-> context_.config, device |-> device_,
      latest |-> Len(calls),
      bufferLive |-> << "buffer", verticesBuffer_ >> \notin destroyed] >>

\* transform() up to `await createImageBitmap(frame)`
WebGPUTransform_transform ==
  /\ kind = "WebGPUTransform"
  /\ CanCall
  /\ \E f \in NextFrames, textureCreated \in BOOLEAN :
       LET c0 == NewCall(f)
           width == f.displayWidth
           height == f.displayHeight
       IN
       /\ lastTs' = f.timestamp
       /\ IF Disabled(device_, canvas_)
            THEN \* frame.close(); return
                 /\ calls' = Append(calls, [c0 EXCEPT !.closed = 1, !.pc = "done",
                                                      !.steps = << "frame.close" >>])
                 /\ UNCHANGED << canvas_, context_ >>
            ELSE
              LET resize == SizeDiffers(canvas_, width, height) IN
              IF resize /\ (~context_.set \/ device_ = Null)
                THEN \* setSize: the canvas is resized, then configure throws
                     /\ canvas_' = << width, height >>
                     /\ UNCHANGED context_
                     /\ calls' = Append(calls,
                          [c0 EXCEPT !.pc = "threw", !.reconf = TRUE, !.fault = "setSize",
                                     !.steps = UpTo(StartSteps(TRUE), "setSize")])
                ELSE
                  /\ canvas_' = IF resize THEN << width, height >> ELSE canvas_
                  /\ context_' = IF resize
                                   THEN [context_ EXCEPT !.config = << width, height >>]
                                   ELSE context_
                  /\ IF textureCreated /\ device_ # Null
                       THEN calls' = Append(calls,
                              [c0 EXCEPT !.pc = "await", !.tex = "live", !.bmp = "pending",
                                         !.device = device_,
                                         !.reconf = resize, !.ops = B2N(resize) + 1,
                                         !.steps = StartSteps(resize)])
                       ELSE \* createTexture throws
                            calls' = Append(calls,
                              [c0 EXCEPT !.pc = "threw", !.reconf = resize,
                                         !.ops = B2N(resize), !.fault = "createTexture",
                                         !.steps = UpTo(StartSteps(resize), "createTexture")])
  /\ StageLifetimeKept
  /\ UNCHANGED << kind, driverVars, firstTimestamp_, sink >>

\* transform() from the settling of createImageBitmap(frame) to its end.
\* Bitmaps of different frames are materialized independently: any suspended
\* call may be the next to resume.
WebGPUTransform_transform_resume ==
  /\ kind = "WebGPUTransform"
  /\ \E i \in 1..Len(calls), bitmapCreated \in BOOLEAN, surfaceTexture \in BOOLEAN :
       LET c == calls[i] IN
       /\ c.pc = "await"
       /\ IF ~bitmapCreated
            THEN \* createImageBitmap rejects
                 /\ calls' = [calls EXCEPT ![i] =
                      [c EXCEPT !.pc = "threw", !.bmp = "none",
                                !.fault = "createImageBitmap(frame)"]]
                 /\ UNCHANGED sink
            ELSE IF device_ = Null \/ renderPipeline_ = Null
              THEN \* this.device_.queue / this.renderPipeline_ of null: TypeError
                   LET at == IF device_ = Null THEN "copyImageBitmapToTexture"
                                               ELSE "createBindGroup"
                   IN
                   /\ calls' = [calls EXCEPT ![i] =
                        [c EXCEPT !.pc = "threw",
                                  !.bmp = IF device_ = Null THEN "live" ELSE "released",
                                  !.fault = at,
                                  !.steps = c.steps \o UpTo(ResumeSteps, at)]]
                   /\ UNCHANGED sink
            ELSE IF ~context_.set \/ (context_.config = Unconfigured /\ ~surfaceTexture)
              THEN \* frame.close(), then getCurrentTexture() fails
                   /\ calls' = [calls EXCEPT ![i] =
                        [c EXCEPT !.pc = "threw", !.bmp = "released",
                                  !.closed = c.closed + 1,
                                  !.fault = "getCurrentTexture",
                                  !.pass = SurfaceAtPass,
                                  !.steps = c.steps \o UpTo(ResumeSteps, "getCurrentTexture")]]
                   /\ UNCHANGED sink
            ELSE \* render pass, submit, enqueue, videoTexture.destroy()
                   /\ sink' = Enqueue(sink, CanvasFrame(canvas_, CapturedTimestamp(c)),
                                      i, FALSE)
                   /\ calls' = [calls EXCEPT ![i] =
                        [c EXCEPT !.pc = "done", !.bmp = "released", !.tex = "released",
                                  !.closed = c.closed + 1, !.enq = c.enq + 1,
                                  !.ops = c.ops + 1,
                                  !.pass = SurfaceAtPass,
                                  !.steps = c.steps \o ResumeSteps]]
  /\ StageLifetimeKept
  /\ UNCHANGED << kind, driverVars, canvas_, context_, firstTimestamp_, lastTs >>


(* ---------------- transforms of simple-transforms.js ------------------ *)
\* NullTransform.transform: controller.enqueue(frame)
NullTransform_transform ==
  /\ kind = "NullTransform"
  /\ CanCall
  /\ \E f \in NextFrames :
       /\ lastTs' = f.timestamp
       /\ sink' = Enqueue(sink, f, Len(calls) + 1, TRUE)
       /\ calls' = Append(calls, [NewCall(f) EXCEPT !.pc = "done", !.enqIn = 1, !.enq = 1])
  /\ UNCHANGED << kind, driverVars, stageVars, firstTimestamp_ >>

\* DropTransform.transform: Math.random() < 0.5 ? enqueue : close
DropTransform_transform ==
  /\ kind = "DropTransform"
  /\ CanCall
  /\ \E f \in NextFrames, keep \in BOOLEAN :
       /\ lastTs' = f.timestamp
       /\ IF keep
            THEN /\ sink' = Enqueue(sink, f, Len(calls) + 1, TRUE)
                 /\ calls' = Append(calls,
                      [NewCall(f) EXCEPT !.pc = "done", !.enqIn = 1, !.enq = 1])
            ELSE /\ calls' = Append(calls, [NewCall(f) EXCEPT !.pc = "done", !.closed = 1])
                 /\ UNCHANGED sink
  /\ UNCHANGED << kind, driverVars, stageVars, firstTimestamp_ >>

\* DelayTransform.transform up to `await new Promise(... setTimeout(resolve, 100))`
DelayTransform_transform ==
  /\ kind = "DelayTransform"
  /\ CanCall
  /\ \E f \in NextFrames :
       /\ lastTs' = f.timestamp
       /\ calls' = Append(calls, [NewCall(f) EXCEPT !.pc = "await"])
  /\ UNCHANGED << kind, driverVars, stageVars, firstTimestamp_, sink >>

\* Timers of equal delay fire in the order they were set: the call that
\* resumes is the oldest one still waiting.
TimerFires(i) ==
  /\ calls[i].pc = "await"
  /\ \A j \in 1..(i - 1) : calls[j].pc # "await"

\* DelayTransform.transform after the timer: controller.enqueue(frame)
DelayTransform_transform_resume ==
  /\ kind = "DelayTransform"
  /\ \E i \in 1..Len(calls) :
       /\ TimerFires(i)
       /\ sink' = Enqueue(sink, calls[i].frame, i, TRUE)
       /\ calls' = [calls EXCEPT ![i] =
            [calls[i] EXCEPT !.pc = "done", !.enqIn = 1, !.enq = calls[i].enq + 1]]
  /\ UNCHANGED << kind, driverVars, stageVars, firstTimestamp_, lastTs >>

\* if (!this.firstTimestamp_): null and 0 are both falsy
NoFirstTimestamp(first) == first = NoTimestamp \/ first = 0

\* a half rounded down to a whole number of pixels
HalfFloor(x) == << x \div 2, 1 >>

\* x / 2 as a fraction << numerator, denominator >> (a JS number division:
\* nothing is rounded)
Half(x) == << x, 2 >>

\* new VideoFrame(frame, {visibleRegion: {left, top, width / 2, height / 2}}):
\* the position is a function of the elapsed time.  The frame's visible region
\* is its whole picture: visibleRegion.width and .height are its display size.
CroppedFrame(f, elapsed) ==
  [timestamp |-> f.timestamp, elapsed |-> elapsed,
   width |-> Half(f.displayWidth), height |-> Half(f.displayHeight)]

\* CropTransform.transform
CropTransform_transform ==
  /\ kind = "CropTransform"
  /\ CanCall
  /\ \E f \in NextFrames :
       LET first == IF NoFirstTimestamp(firstTimestamp_)
                      THEN f.timestamp ELSE firstTimestamp_
       IN
       /\ lastTs' = f.timestamp
       /\ firstTimestamp_' = first
       /\ sink' = Enqueue(sink, CroppedFrame(f, f.timestamp - first),
                          Len(calls) + 1, FALSE)
       /\ calls' = Append(calls, [NewCall(f) EXCEPT !.pc = "done", !.closed = 1, !.enq = 1])
  /\ UNCHANGED << kind, driverVars, stageVars >>

(* --------------------------- specification ---------------------------- *)
Next ==
  \/ WebGPUTransform_init
  \/ WebGPUTransform_init_adapter
  \/ WebGPUTransform_init_device
  \/ WebGPUTransform_transform
  \/ WebGPUTransform_transform_resume
  \/ WebGPUTransform_destroy
  \/ Simple_init
  \/ Simple_destroy
  \/ NullTransform_transform
  \/ DropTransform_transform
  \/ DelayTransform_transform
  \/ DelayTransform_transform_resume
  \/ CropTransform_transform

Spec == Init /\ [][Next]_vars

TypeOK ==
  /\ kind \in StageKinds
  /\ phase \in {"new", "initializing", "ready", "destroyed"}
  /\ cycles \in 0..MaxCycles
  /\ Len(calls) <= MaxFrames
  /\ Len(sink) <= Len(calls)


(* ------------------------------ claims -------------------------------- *)
Finished(c) == c.pc \in {"done", "threw"}
CallIds == 1..Len(calls)
IsGPU == kind = "WebGPUTransform"

\* C1: for every stage and every input frame, once the transform call has
\* finished, exactly one of {input frame enqueued, input frame closed} has
\* happened: never both, never neither, never closed twice.
C1_ExactlyOneOfEnqueuedOrClosed ==
  \A i \in CallIds :
    Finished(calls[i]) => calls[i].closed + calls[i].enqIn = 1

\* C2: after an init() that failed, every transform call closes its input
\* frame, enqueues nothing and performs no GPU operation.
C2_FailedInitFailsOpen ==
  \A i \in CallIds :
    (IsGPU /\ calls[i].startState = "failed") =>
      /\ calls[i].pc = "done"
      /\ calls[i].closed = 1
      /\ calls[i].enq = 0
      /\ calls[i].ops = 0
      /\ calls[i].tex = "none"
      /\ \A k \in 1..Len(sink) : sink[k].call # i

\* a transform call made on a stage whose second init() failed after a first
\* init() had succeeded
C2_Witness ==
  /\ IsGPU
  /\ cycles = 2
  /\ << "device", 1 >> \in created
  /\ \E i \in CallIds : calls[i].startState = "failed" /\ calls[i].closed = 1

\* C3: in an enabled WebGPUTransform a transform call reconfigures the
\* surface if and only if the frame's display dimensions differ from the
\* previously configured dimensions (so the first of a run of same-sized
\* frames after init reconfigures, and the others do not).
C3_ReconfigureIffSizeChanged ==
  \A i \in CallIds :
    (IsGPU /\ calls[i].startState = "enabled") =>
      (calls[i].reconf <=>
         calls[i].prevConfig # << calls[i].frame.displayWidth,
                                  calls[i].frame.displayHeight >>)

\* C4: the timestamp of every enqueued output frame equals the timestamp of
\* the input frame of the transform call that enqueued it (WebGPU, null, drop
\* and delay stages), also with several calls in flight.
C4_OutputTimestampIsInputTimestamp ==
  kind \in {"WebGPUTransform", "NullTransform", "DropTransform", "DelayTransform"} =>
    \A k \in 1..Len(sink) :
      sink[k].frame.timestamp = calls[sink[k].call].frame.timestamp

\* two WebGPU calls were in flight together and both have enqueued, the
\* later call first
C4_Witness ==
  /\ IsGPU
  /\ Len(sink) = 2
  /\ sink[1].call = 2
  /\ sink[2].call = 1

\* C5: every transform call enqueues 0 or 1 frames, so after n calls at most
\* n frames have been enqueued.
C5_AtMostOneEnqueuePerCall ==
  /\ Len(sink) <= Len(calls)
  /\ \A i \in CallIds :
       /\ calls[i].enq <= 1
       /\ Cardinality({ k \in 1..Len(sink) : sink[k].call = i }) = calls[i].enq

\* one finished call has enqueued a frame and another has enqueued none
C5_Witness ==
  \E i, j \in CallIds :
    /\ calls[i].pc = "done" /\ calls[i].enq = 1
    /\ calls[j].pc = "done" /\ calls[j].enq = 0

\* C6: on a WebGPUTransform or DelayTransform, outputs are enqueued in the
\* order in which their transform calls were made.
C6_OutputOrderPreserved ==
  kind \in {"WebGPUTransform", "DelayTransform"} =>
    \A j, k \in 1..Len(sink) : j < k => sink[j].call < sink[k].call

\* C7 as stated: a transform call made after destroy() is signalled as an
\* error.
C7_TransformAfterDestroyIsFatal ==
  \A i \in CallIds :
    (IsGPU /\ calls[i].startState = "destroyed") => calls[i].pc = "threw"

\* C7 amended: a transform call made after destroy() and before a later
\* init() is handled like a call on a disabled stage: it returns normally,
\* having closed its input frame, enqueued nothing and done no GPU operation.
C7_TransformAfterDestroyFailsOpen ==
  \A i \in CallIds :
    (IsGPU /\ calls[i].startState = "destroyed") =>
      /\ calls[i].pc = "done"
      /\ calls[i].closed = 1
      /\ calls[i].enq = 0
      /\ calls[i].ops = 0

\* a transform call was made after the destroy() of a stage whose init()
\* had succeeded
C7_Witness ==
  /\ IsGPU
  /\ initResult = "ok"
  /\ destroyResult = "ok"
  /\ \E i \in CallIds : calls[i].startState = "destroyed" /\ calls[i].pc = "done"

\* C8: after destroy() none of the long-lived resources init() acquired
\* (device, render pipeline, vertex buffer, sampler, surface) is still held
\* by the stage.
C8_DestroyReleasesEverything ==
  (IsGPU /\ phase = "destroyed") =>
    /\ device_ = Null
    /\ renderPipeline_ = Null
    /\ sampler_ = Null
    /\ verticesBuffer_ # Null => << "buffer", verticesBuffer_ >> \in destroyed
    /\ context_.config = Unconfigured

\* C9: an init() that misses a capability notifies the user exactly once,
\* creates no vertex buffer, pipeline or sampler and leaves the device handle
\* unset; an init() that succeeds does not notify.
C9_InitFailureNotifiesOnce ==
  (IsGPU /\ phase \in {"ready", "destroyed"}) =>
    /\ initResult = "failed" =>
         /\ initAlerts = 1
         /\ device_ = Null
         /\ \A t \in {"buffer", "pipeline", "sampler"} : << t, cycles >> \notin created
    /\ initResult = "ok" => initAlerts = 0

\* an init() failed after the presentation context had been acquired
C9_Witness ==
  /\ IsGPU
  /\ phase = "ready"
  /\ initResult = "failed"
  /\ context_.set
  /\ initAlerts = 1

\* C10: on a WebGPUTransform whose init() failed, init(), every transform
\* call and destroy() complete without throwing.
C10_FailedInitNeverThrows ==
  (IsGPU /\ initResult = "failed") =>
    /\ phase = "destroyed" => destroyResult # "threw"
    /\ \A i \in CallIds : calls[i].startState = "failed" => calls[i].pc # "threw"

\* C11: when texture creation or bitmap materialization fails in an enabled
\* stage, processing of the frame stops and the input frame is still closed
\* exactly once.
C11_FailedFrameStillClosed ==
  \A i \in CallIds :
    (IsGPU /\ calls[i].fault \in {"createTexture", "createImageBitmap(frame)"}) =>
      /\ calls[i].pc = "threw"
      /\ calls[i].enq = 0
      /\ calls[i].closed = 1

\* C12: the frame CropTransform enqueues has a visible region exactly half as
\* wide and half as high as its input frame, whatever the elapsed time.
C12_CropIsHalfSize ==
  kind = "CropTransform" =>
    \A k \in 1..Len(sink) :
      LET out == sink[k].frame
          in == calls[sink[k].call].frame
      IN /\ out.width[2] > 0 /\ out.height[2] > 0
         /\ 2 * out.width[1] = in.displayWidth * out.width[2]
         /\ 2 * out.height[1] = in.displayHeight * out.height[2]

\* a frame of odd width and height was cropped at a positive elapsed time,
\* after a frame of even width and height
C12_Witness ==
  /\ kind = "CropTransform"
  /\ Len(sink) = 2
  /\ calls[1].frame.displayWidth = 2 /\ calls[1].frame.displayHeight = 2
  /\ calls[2].frame.displayWidth = 1 /\ calls[2].frame.displayHeight = 1
  /\ sink[2].frame.elapsed > 0

FrameSize(c) == << c.frame.displayWidth, c.frame.displayHeight >>

\* C13: while the stage is enabled and the transform call that started most
\* recently started on it as it is (no destroy() and init() since), the canvas
\* has the display size of that call's frame, and so has the surface's
\* configuration when there is one.
C13_CanvasFollowsLatestFrame ==
  (IsGPU /\ Len(calls) >= 1) =>
    LET last == calls[Len(calls)] IN
    (last.startState = "enabled" /\ device_ # Null /\ last.device = device_) =>
      /\ canvas_ = FrameSize(last)
      /\ context_.config # Unconfigured => context_.config = FrameSize(last)

\* two calls are suspended together on the enabled stage, the later one for a
\* frame that differs from the earlier one's in height only
C13_Witness ==
  /\ IsGPU
  /\ phase = "ready"
  /\ Len(calls) = 2
  /\ calls[1].pc = "await" /\ calls[2].pc = "await"
  /\ FrameSize(calls[1]) = << 2, 1 >>
  /\ FrameSize(calls[2]) = << 2, 2 >>
  /\ calls[2].reconf

ReachedPass(c) == c.pass # << >>

\* C14 as stated: whenever a transform call acquires the current surface
\* texture, the canvas (surface) size is that call's own frame size, also when
\* a call for a differently sized frame started while it was suspended.
C14_PassSizeIsOwnFrameSize ==
  \A i \in CallIds :
    (IsGPU /\ ReachedPass(calls[i])) =>
      calls[i].pass[1].canvas = FrameSize(calls[i])

\* C14 amended: whenever a transform call acquires the current surface
\* texture, the canvas (surface) size is that call's own frame size, provided
\* that since the call started no init() has run and no transform call for a
\* frame of another size has started.
C14_PassSizeIsOwnUnlessResizedSince ==
  \A i \in CallIds :
    (IsGPU /\ ReachedPass(calls[i])) =>
      LET c == calls[i]
          at == c.pass[1]
      IN (at.device = c.device
            /\ \A j \in (i + 1)..at.latest : FrameSize(calls[j]) = FrameSize(c))
           => at.canvas = FrameSize(c)

\* a call acquired the surface texture with its own size in place although a
\* later call, for a frame of the same size, had started while it was suspended
C14_Witness ==
  /\ IsGPU
  /\ \E i \in CallIds :
       /\ ReachedPass(calls[i])
       /\ calls[i].pc = "done"
       /\ calls[i].pass[1].latest > i
       /\ calls[i].pass[1].device = calls[i].device
       /\ FrameSize(calls[i]) = << 2, 1 >>
       /\ calls[i].pass[1].canvas = << 2, 1 >>

\* C15: the current surface texture is never acquired from a surface that
\* has not been configured since init(), whatever the frame size (1x1
\* included).
C15_SurfaceConfiguredBeforePass ==
  \A i \in CallIds :
    (IsGPU /\ ReachedPass(calls[i])) =>
      calls[i].pass[1].config # Unconfigured

\* C16: whenever no transform call is in flight, no per-frame texture and no
\* intermediate bitmap is live: each call has released the ones it created.
C16_NoPerFrameResourceOutlivesCall ==
  (IsGPU /\ \A i \in CallIds : Finished(calls[i])) =>
    \A i \in CallIds : calls[i].tex # "live" /\ calls[i].bmp # "live"

Has(seq, name) == \E k \in 1..Len(seq) : seq[k] = name
\* the statements of seq that are in set names, in the order of seq
Only(seq, names) == SelectSeq(seq, LAMBDA x : x \in names)
\* the statements that read the input frame
FrameReads == {"frame.displayWidth", "frame.displayHeight",
               "createImageBitmap(frame)", "frame.timestamp"}
Processed(c) == c.pc = "done" /\ c.enq = 1

\* C17: in a processed WebGPU transform call the surface is reconfigured (if
\* at all) before the texture is created; the bitmap is copied and closed
\* before the bind group is built; the timestamp is captured before the input
\* frame is closed; the frame is closed before the render pass is encoded and
\* is not read afterwards; the commands are submitted before the output is
\* enqueued; the texture is destroyed after submission and enqueue.
C17_StepOrder ==
  \A i \in CallIds :
    (IsGPU /\ Processed(calls[i])) =>
      LET st == calls[i].steps
          frameUse == Only(st, FrameReads \cup {"frame.close", "beginRenderPass"})
      IN
      /\ Only(st, {"setSize", "createTexture"})
           = IF calls[i].reconf THEN << "setSize", "createTexture" >>
                                ELSE << "createTexture" >>
      /\ Only(st, {"copyImageBitmapToTexture", "imageBitmap.close", "createBindGroup"})
           = << "copyImageBitmapToTexture", "imageBitmap.close", "createBindGroup" >>
      /\ Len(frameUse) = 6
      /\ { frameUse[k] : k \in 1..4 } = FrameReads
      /\ frameUse[5] = "frame.close"
      /\ frameUse[6] = "beginRenderPass"
      /\ Only(st, {"submit", "enqueue", "videoTexture.destroy"})
           = << "submit", "enqueue", "videoTexture.destroy" >>

\* a call that reconfigured the surface has been processed to its end
C17_Witness ==
  /\ IsGPU
  /\ \E i \in CallIds :
       /\ Processed(calls[i])
       /\ calls[i].reconf
       /\ calls[i].tex = "released"
       /\ Has(calls[i].steps, "setSize")

\* C18: a transform call (processed or fail-open) leaves the device handle,
\* the render pipeline, the vertex buffer and the sampler as they were; of
\* the stage's state it may change only the canvas / surface size.
C18_TransformKeepsStageState ==
  [][ (IsGPU /\ calls' # calls) =>
        /\ device_' = device_
        /\ renderPipeline_' = renderPipeline_
        /\ verticesBuffer_' = verticesBuffer_
        /\ sampler_' = sampler_
        /\ context_'.set = context_.set
        /\ created' = created
        /\ destroyed' = destroyed ]_vars

\* one call was processed and resized the canvas, a later one failed open,
\* and the pipeline and sampler handles are those init() created
C18_Witness ==
  /\ IsGPU
  /\ Len(calls) = 2
  /\ Processed(calls[1]) /\ calls[1].reconf
  /\ calls[2].steps = << "frame.close" >>
  /\ renderPipeline_ = 1
  /\ sampler_ = 1
  /\ verticesBuffer_ = 1

\* C19: once CropTransform has recorded the timestamp of the first frame it
\* never changes it: every frame's elapsed time is its timestamp minus the
\* timestamp of the first frame ever observed, a first timestamp of 0
\* included.
C19_ElapsedSinceFirstFrame ==
  (kind = "CropTransform" /\ Len(calls) >= 1) =>
    /\ firstTimestamp_ = calls[1].frame.timestamp
    /\ \A k \in 1..Len(sink) :
         sink[k].frame.elapsed =
           calls[sink[k].call].frame.timestamp - calls[1].frame.timestamp

\* destroy() ran while call c was suspended: c resumed to find this.device_
\* null, or to find the device of a later init()
ResumedAfterDestroy(c) ==
  \/ c.fault = "copyImageBitmapToTexture"
  \/ ReachedPass(c) /\ c.pass[1].device # c.device

\* C20: a transform call that was suspended at bitmap materialization while
\* destroy() ran still closes its input frame exactly once and destroys its
\* per-frame texture when it resumes (its bitmap having been materialized),
\* and it binds no vertex buffer that destroy() has released.
C20_ResumeAfterDestroyCleansUp ==
  \A i \in CallIds :
    (IsGPU /\ Finished(calls[i]) /\ ResumedAfterDestroy(calls[i])) =>
      /\ calls[i].closed = 1
      /\ calls[i].tex = "released"
      /\ ReachedPass(calls[i]) => calls[i].pass[1].bufferLive

=============================================================================
